---- MODULE Spec2Model ----
(***************************************************************************)
(* Lutris cover art downloader (src/main.py): main() as a state machine.   *)
(* One action per function main() calls; the environment (user answers,    *)
(* HTTP responses, filesystem results) is drawn with \E inside the action  *)
(* that consumes it.                                                       *)
(***************************************************************************)
EXTENDS Integers, Sequences, FiniteSets, TLC

\* ------------------------------------------------------------ bounds
MaxGames == 2        \* rows of the games table
MaxKeyLen == 2       \* characters of a key file / of the typed key
MaxRuns == 2         \* times the program is started

\* ------------------------------------------------------------ constants
BANNER_DIMENSIONS == "460x215"
VERTICAL_DIMENSIONS == "600x900"
BANNER_CACHE_PATH == "/home/{user}/.cache/lutris/banners/"
COVERART_CACHE_PATH == "/home/{user}/.cache/lutris/coverart/"
COVER_ART_EXTENSIONS == <<".png", ".jpeg", ".jpg">>

\* Python's None where the other values are integers (game_id, exit status).
NoneId == -1
\* Python's None where the other values are tuples (auth_header).
None == <<>>

\* ------------------------------------------------------------ value sets
Slugs == {"half-life-2", "portal"}
Exts == {".png", ".jpeg", ".jpg", ".webp"}
Dirs == {BANNER_CACHE_PATH, COVERART_CACHE_PATH}
Chars == {" ", "k"}
CoverChoices == {"Banner", "Vertical"}

SeqsUpTo(S, n) == UNION {[1..m -> S] : m \in 0..n}
RawStrings == SeqsUpTo(Chars, MaxKeyLen)
Libraries == SeqsUpTo(Slugs, MaxGames)

\* HTTP exchanges: net = "error" is a requests.exceptions.RequestException
\* raised by requests.get itself; otherwise a status and the parsed body.
HttpStatuses == {200, 204, 301, 401, 500}
TestResponses ==
    {[net |-> "error", status |-> 0]} \cup
    {[net |-> "ok", status |-> s] : s \in HttpStatuses}

Ids == {1, 2}
DimensionsSet == {BANNER_DIMENSIONS, VERTICAL_DIMENSIONS}
FullImage == <<"chunk1", "chunk2">>
NetError == [net |-> "error", status |-> 0, data |-> <<>>]
Unset == [net |-> "unset", status |-> 0, data |-> <<>>]
\* search/autocomplete: "data" is the list of matches, here their ids.
SearchResponses ==
    {NetError, [net |-> "ok", status |-> 500, data |-> <<>>]} \cup
    {[net |-> "ok", status |-> 200, data |-> d] : d \in {<<>>, <<2, 1>>}}
\* grids/game/{id}: "data" is the list of grids, here their urls.
GridResponses ==
    {NetError, [net |-> "ok", status |-> 500, data |-> <<>>]} \cup
    {[net |-> "ok", status |-> 200, data |-> d] : d \in {<<>>, <<"url">>}}
\* the image: "data" is what iter_content yields; "error" is the connection
\* breaking while the body is read (a RequestException raised by the iterator).
ImageResponses ==
    {NetError, [net |-> "ok", status |-> 404, data |-> <<>>]} \cup
    {[net |-> "ok", status |-> 200, data |-> d] :
        d \in {FullImage, <<"chunk1", "error">>}}
\* the filesystem at the cover's path
FsResults == {"ok", "makedirs_error", "write_error"}

\* ------------------------------------------------------------ pure helpers
\* str.strip(): leading and trailing whitespace removed.
RECURSIVE LStrip(_)
LStrip(s) == IF s # <<>> /\ Head(s) = " " THEN LStrip(Tail(s)) ELSE s

RECURSIVE RStrip(_)
RStrip(s) ==
    IF s # <<>> /\ s[Len(s)] = " " THEN RStrip(SubSeq(s, 1, Len(s) - 1)) ELSE s

Strip(s) == RStrip(LStrip(s))

\* {'Authorization': 'Bearer ' + api_key}: a non-empty dict, truthy in Python
\* whatever api_key is.
AuthHeader(api_key) == <<"Bearer", api_key>>

\* Response.raise_for_status(): HTTPError for 4xx and 5xx.
RaisesForStatus(status) == status >= 400 /\ status < 600

TestApiKeyAny2xx(resp) ==
    IF resp.net = "error" THEN FALSE
    ELSE IF RaisesForStatus(resp.status) THEN FALSE
    ELSE TRUE

\* test_api_key: the value returned for the response of its one request.
TestApiKey(resp) ==
    IF resp.net = "error" THEN FALSE                  \* except RequestException
    ELSE IF RaisesForStatus(resp.status) THEN FALSE   \* HTTPError, caught too
    ELSE IF resp.status = 200 THEN TRUE
    ELSE FALSE                                         \* falls out of the try

SetApiKeyStepIgnoringTest(api_key, valid) ==
    IF api_key = <<>> THEN "empty" ELSE "save"

\* set_api_key: what it does with the stripped input and the test's result.
SetApiKeyStep(api_key, valid) ==
    IF api_key = <<>> THEN "empty"
    ELSE IF valid THEN "save"
    ELSE "invalid"

VARIABLES
    pc,           \* main()'s position
    run,          \* which start of the program this is
    exitCode,     \* process exit status once pc = "exited"
    uncaught,     \* <<exception, function>> that escaped main(), or None
    cover_type,   \* answer of the cover type prompt
    dimensions, cache_path,
    db_conn,      \* "None" | "ok" | "bad" (opens, but holds no games table)
    auth_header,
    keyFile,      \* ./apikey.txt: [exists, readable, text]
    keyFileAtStart, \* keyFile when this run started
    keySource,    \* "none" | "file" | "input": where auth_header came from
    keyTests,     \* <<token, response, returned>>: test_api_key's calls, this run
    keyWrites,    \* tokens this run opened ./apikey.txt for writing with
    prompts,      \* times this run asked for a key
    setKey,       \* "none" | "empty" | "invalid" | "save": set_api_key's branch
    library,      \* slug column of the games table, in row order
    games, i, game_id,
    cache,        \* cover files on disk: set of [dir, slug, ext, content]
    cacheAtStart, \* cache when this run started
    events,       \* <<run, i, kind, detail>>: what each loop iteration did
    world,        \* what the user, the catalog and the disk have answered
    prev          \* the previous run: [cache, cover_type, ran]

vars == <<pc, run, exitCode, uncaught, cover_type, dimensions, cache_path,
          db_conn, auth_header, keyFile, keyFileAtStart, keySource, keyTests,
          keyWrites, prompts, setKey, library, games, i, game_id, cache,
          cacheAtStart, events, world, prev>>


\* ------------------------------------------------------------ environment
\* The user, the catalog and the disk are scripted: a question that was
\* answered before (the login name, the prompt, the database, a request for a
\* slug, the disk at a slug's path) is answered the same way when it is asked
\* again, in this run or in the next. The first answer is any.
Answers(memo, key, r) == memo[key] \in {Unset, r}
FsAnswers(memo, key, r) == memo[key] \in {"unset", r}
Remember(memo, key, r) == [memo EXCEPT ![key] = r]

UserFile(dir, slug, ext) ==
    [dir |-> dir, slug |-> slug, ext |-> ext, content |-> <<"user">>]

\* the cache directories before the first run: empty, or one file the user put
InitialCaches ==
    {{}} \cup {{UserFile(COVERART_CACHE_PATH, "portal", e)} : e \in Exts}
         \cup {{UserFile(BANNER_CACHE_PATH, "portal", ".jpg")}}

InitLocals ==
    /\ pc = "get_username"
    /\ run = 1
    /\ exitCode = NoneId
    /\ uncaught = None
    /\ cover_type = "none"
    /\ dimensions = "None"
    /\ cache_path = "None"
    /\ db_conn = "None"
    /\ auth_header = None
    /\ keyFileAtStart = keyFile
    /\ keySource = "none"
    /\ keyTests = <<>>
    /\ keyWrites = <<>>
    /\ prompts = 0
    /\ setKey = "none"
    /\ games = <<>>
    /\ i = 0
    /\ game_id = NoneId
    /\ cacheAtStart = cache
    /\ events = {}
    /\ world = [answer |-> [q \in {"username", "cover_type", "db"} |-> "unset"],
                search |-> [s \in Slugs |-> Unset],
                grid |-> [s \in Slugs |-> Unset],
                image |-> [s \in Slugs |-> Unset],
                fs |-> [s \in Slugs |-> "unset"]]
    /\ prev = [cache |-> {}, cover_type |-> "none", ran |-> FALSE]

\* any library and cache directory, with a key in ./apikey.txt
InitLibrary ==
    /\ keyFile = [exists |-> TRUE, readable |-> TRUE, text |-> <<"k">>]
    /\ library \in Libraries
    /\ cache \in InitialCaches
    /\ InitLocals

\* any ./apikey.txt, or none, with one game in the library
InitKeyFile ==
    /\ keyFile \in {[exists |-> FALSE, readable |-> TRUE, text |-> <<>>]} \cup
                    [exists : {TRUE}, readable : BOOLEAN, text : RawStrings]
    /\ library = <<"portal">>
    /\ cache = {}
    /\ InitLocals

Init == InitLibrary \/ InitKeyFile

\* exit(code), or the interpreter ending with an uncaught exception (status 1).
Exit(code) == pc' = "exited" /\ exitCode' = code

runVars == <<run, library, prev, cacheAtStart, keyFileAtStart>>
credVars == <<auth_header, keyFile, keySource, keyTests, keyWrites, prompts, setKey>>
loopVars == <<games, i, game_id, cache, events, world>>

\* ------------------------------------------------------------ main()
GetUsername ==
    /\ pc = "get_username"
    /\ \E r \in {"ok", "OSError"} :
         /\ FsAnswers(world.answer, "username", r)
         /\ world' = [world EXCEPT !.answer = Remember(@, "username", r)]
         /\ IF r = "ok" THEN pc' = "get_cover_type" /\ exitCode' = exitCode
            ELSE Exit(1)                             \* if not username: exit(1)
    /\ UNCHANGED <<uncaught, cover_type, dimensions, cache_path, db_conn>>
    /\ UNCHANGED <<runVars, credVars>>
    /\ UNCHANGED <<games, i, game_id, cache, events>>

GetCoverType ==
    /\ pc = "get_cover_type"
    /\ \E answer \in CoverChoices \cup {"cancel"} :
         /\ FsAnswers(world.answer, "cover_type", answer)
         /\ world' = [world EXCEPT !.answer = Remember(@, "cover_type", answer)]
         /\ cover_type' = answer
         /\ IF answer = "cancel"
            THEN /\ UNCHANGED <<dimensions, cache_path>>
                 /\ Exit(0)
            ELSE /\ dimensions' = IF answer = "Banner" THEN BANNER_DIMENSIONS
                                  ELSE VERTICAL_DIMENSIONS
                 /\ cache_path' = IF answer = "Banner" THEN BANNER_CACHE_PATH
                                  ELSE COVERART_CACHE_PATH
                 /\ pc' = "connect_to_db"
                 /\ exitCode' = exitCode
    /\ UNCHANGED <<uncaught, db_conn>>
    /\ UNCHANGED <<runVars, credVars>>
    /\ UNCHANGED <<games, i, game_id, cache, events>>

ConnectToDb ==
    /\ pc = "connect_to_db"
    /\ \E r \in {"error", "bad", "ok"} :
         /\ FsAnswers(world.answer, "db", r)
         /\ world' = [world EXCEPT !.answer = Remember(@, "db", r)]
         /\ IF r = "error"
            THEN db_conn' = "None" /\ Exit(1)        \* sqlite3.Error: exit(1)
            ELSE db_conn' = r /\ pc' = "get_api_key" /\ exitCode' = exitCode
    /\ UNCHANGED <<uncaught, cover_type, dimensions, cache_path>>
    /\ UNCHANGED <<runVars, credVars>>
    /\ UNCHANGED <<games, i, game_id, cache, events>>

\* get_api_key_from_file
GetApiKeyFromFileResult(file) ==
    IF file.exists                                     \* os.path.isfile
    THEN IF file.readable THEN AuthHeader(Strip(file.text))
         ELSE None                                     \* except IOError
    ELSE None

GetApiKeyFromFile ==
    /\ pc = "get_api_key"
    /\ LET h == GetApiKeyFromFileResult(keyFile) IN
         /\ auth_header' = h
         /\ IF h = None                                \* if not auth_header
            THEN pc' = "set_api_key" /\ keySource' = "none"
            ELSE pc' = "get_games_list" /\ keySource' = "file"
    /\ UNCHANGED <<exitCode, uncaught, cover_type, dimensions, cache_path, db_conn>>
    /\ UNCHANGED <<keyFile, keyTests, keyWrites, prompts, setKey>>
    /\ UNCHANGED <<runVars, loopVars>>

\* save_api_key: the file afterwards
SaveApiKey(file, api_key, result) ==
    CASE result = "ok" -> [file EXCEPT !.exists = TRUE, !.text = api_key]
      [] result = "open_error" -> file                 \* open() raised
      [] result = "write_error" ->                     \* opened, so truncated
            [file EXCEPT !.exists = TRUE, !.text = <<>>]

SetApiKey ==
    /\ pc = "set_api_key"
    /\ \E raw \in RawStrings, resp \in TestResponses,
          saved \in {"ok", "open_error", "write_error"} :
         LET api_key == Strip(raw)
             valid == TestApiKey(resp)
             step == SetApiKeyStep(api_key, valid)
         IN
         /\ prompts' = prompts + 1
         /\ setKey' = step
         /\ keyTests' = IF api_key = <<>> THEN keyTests
                        ELSE Append(keyTests, <<api_key, resp, valid>>)
         /\ IF step = "save"
            THEN /\ keyFile' = SaveApiKey(keyFile, api_key, saved)
                 /\ keyWrites' = IF saved = "open_error" THEN keyWrites
                                 ELSE Append(keyWrites, api_key)
                 /\ auth_header' = AuthHeader(api_key)
                 /\ keySource' = "input"
                 /\ pc' = "get_games_list"
                 /\ exitCode' = exitCode
            ELSE /\ UNCHANGED <<keyFile, keyWrites, keySource>>
                 /\ auth_header' = None
                 /\ Exit(1)                           \* if not auth_header: exit(1)
    /\ UNCHANGED <<uncaught, cover_type, dimensions, cache_path, db_conn>>
    /\ UNCHANGED <<runVars, loopVars>>

\* ------------------------------------------------------------ the game loop
IsFile(files, dir, slug, ext) ==
    \E f \in files : f.dir = dir /\ f.slug = slug /\ f.ext = ext

CoverExistsJpgOnly(files, dir, slug) == IsFile(files, dir, slug, ".jpg")

\* the extension loop of get_games_list_from_db
CoverExists(files, dir, slug) ==
    \E k \in 1..Len(COVER_ART_EXTENSIONS) :
        IsFile(files, dir, slug, COVER_ART_EXTENSIONS[k])

\* the for loop going on to its next entry, or ending
NextGame ==
    /\ i' = i + 1
    /\ pc' = IF i < Len(games) THEN "check_cover" ELSE "close"

GetGamesList ==
    /\ pc = "get_games_list"
    /\ IF db_conn = "bad"
       THEN \* cursor.execute raises sqlite3.OperationalError: nothing catches it
            /\ uncaught' = <<"sqlite3.OperationalError", "get_games_list_from_db">>
            /\ Exit(1)
            /\ UNCHANGED <<games, i, events>>
       ELSE /\ games' = library
            /\ events' = events \cup {<<run, 0, "list", "ok">>}
            /\ UNCHANGED <<uncaught, exitCode>>
            /\ IF library = <<>>                       \* if not games: return
               THEN pc' = "close" /\ i' = i
               ELSE pc' = "check_cover" /\ i' = 1
    /\ UNCHANGED <<cover_type, dimensions, cache_path, db_conn>>
    /\ UNCHANGED <<game_id, cache, world>>
    /\ UNCHANGED <<runVars, credVars>>

CheckCover ==
    /\ pc = "check_cover"
    /\ IF CoverExists(cache, cache_path, games[i])
       THEN /\ events' = events \cup {<<run, i, "check", "skip">>}
            /\ NextGame
       ELSE /\ events' = events \cup {<<run, i, "check", "proceed">>}
            /\ pc' = "search_game_id"
            /\ i' = i
    /\ UNCHANGED <<exitCode, uncaught, cover_type, dimensions, cache_path, db_conn>>
    /\ UNCHANGED <<games, game_id, cache, world>>
    /\ UNCHANGED <<runVars, credVars>>

\* whether requests.get followed by raise_for_status raises
Raises(resp) == resp.net = "error" \/ RaisesForStatus(resp.status)

\* search_game_id: the value returned for the response of its request
SearchGameIdResult(resp) ==
    IF Raises(resp) THEN NoneId                        \* except: return None
    ELSE IF resp.data # <<>> THEN resp.data[1]         \* data[0]["id"]
    ELSE NoneId

SearchOutcome(resp) ==
    IF Raises(resp) THEN "error"
    ELSE IF resp.data # <<>> THEN "found" ELSE "empty"

SearchGameId ==
    /\ pc = "search_game_id"
    /\ \E resp \in SearchResponses :
         /\ Answers(world.search, games[i], resp)
         /\ world' = [world EXCEPT !.search = Remember(@, games[i], resp)]
         /\ game_id' = SearchGameIdResult(resp)
         /\ events' = events \cup {<<run, i, "search", SearchOutcome(resp)>>}
    /\ pc' = "download_cover"
    /\ UNCHANGED <<exitCode, uncaught, cover_type, dimensions, cache_path, db_conn>>
    /\ UNCHANGED <<games, i, cache>>
    /\ UNCHANGED <<runVars, credVars>>

NoGameIdNever(id) == FALSE

\* "if not game_id": None, and 0 as well
NoGameId(id) == id = NoneId \/ id = 0

\* the chunks written before iter_content raises or ends
RECURSIVE Written(_)
Written(chunks) ==
    IF chunks = <<>> \/ Head(chunks) = "error" THEN <<>>
    ELSE <<Head(chunks)>> \o Written(Tail(chunks))

StreamBreaks(chunks) == \E k \in 1..Len(chunks) : chunks[k] = "error"

\* download_cover past its "if not game_id": how far it gets, what it leaves on
\* disk (file is None when it opened nothing) and what exception leaves it.
DownloadCoverResult(grid, image, fs) ==
    IF Raises(grid)
    THEN [did |-> {<<"grid", "error">>}, file |-> None, exc |-> "caught"]
    ELSE IF grid.data = <<>>
    THEN [did |-> {<<"grid", "empty">>}, file |-> None, exc |-> "none"]
    ELSE IF Raises(image)
    THEN [did |-> {<<"grid", "found">>, <<"image", "error">>},
          file |-> None, exc |-> "caught"]
    ELSE IF fs = "makedirs_error"
    THEN [did |-> {<<"grid", "found">>, <<"image", "ok">>, <<"fs", fs>>},
          file |-> None, exc |-> "OSError"]
    ELSE IF fs = "write_error"
    THEN \* open(filepath, 'wb') has created or truncated the file
         [did |-> {<<"grid", "found">>, <<"image", "ok">>, <<"fs", fs>>,
                   <<"open", "wb">>},
          file |-> <<<<>>>>, exc |-> "OSError"]
    ELSE IF StreamBreaks(image.data)
    THEN [did |-> {<<"grid", "found">>, <<"image", "ok">>, <<"fs", fs>>,
                   <<"open", "wb">>, <<"stream", "broken">>},
          file |-> <<Written(image.data)>>, exc |-> "caught"]
    ELSE [did |-> {<<"grid", "found">>, <<"image", "ok">>, <<"fs", fs>>,
                   <<"open", "wb">>, <<"stream", "complete">>},
          file |-> <<Written(image.data)>>, exc |-> "none"]

Did(result, kind) == \E d \in result.did : d[1] = kind

\* open(filepath, 'wb') and the writes: the directory afterwards
WriteFile(files, dir, slug, ext, content) ==
    {f \in files : ~(f.dir = dir /\ f.slug = slug /\ f.ext = ext)}
        \cup {[dir |-> dir, slug |-> slug, ext |-> ext, content |-> content]}

DownloadCover ==
    /\ pc = "download_cover"
    /\ IF NoGameId(game_id)
       THEN /\ NextGame                                \* return
            /\ UNCHANGED <<exitCode, uncaught, cache, events, world>>
       ELSE \E grid \in GridResponses, image \in ImageResponses, fs \in FsResults :
            LET r == DownloadCoverResult(grid, image, fs)
                key == games[i]
                path == games[i]
            IN
            /\ Answers(world.grid, key, grid)
            /\ Did(r, "image") => Answers(world.image, key, image)
            /\ Did(r, "fs") => FsAnswers(world.fs, path, fs)
            /\ world' = [world EXCEPT
                            !.grid = Remember(@, key, grid),
                            !.image = IF Did(r, "image")
                                      THEN Remember(@, key, image) ELSE @,
                            !.fs = IF Did(r, "fs") THEN Remember(@, path, fs) ELSE @]
            /\ events' = events \cup {<<run, i, d[1], d[2]>> : d \in r.did}
            /\ cache' = IF r.file = None THEN cache
                        ELSE WriteFile(cache, cache_path, games[i], ".jpg", r.file[1])
            /\ IF r.exc = "OSError"
               THEN \* not a RequestException: it leaves download_cover, the loop
                    \* and main()
                    /\ uncaught' = <<"OSError", "download_cover">>
                    /\ Exit(1)
                    /\ i' = i
               ELSE /\ NextGame
                    /\ UNCHANGED <<exitCode, uncaught>>
    /\ UNCHANGED <<cover_type, dimensions, cache_path, db_conn>>
    /\ UNCHANGED <<games, game_id>>
    /\ UNCHANGED <<runVars, credVars>>

\* db_conn.close() and the end of main(): exit status 0
Close ==
    /\ pc = "close"
    /\ Exit(0)
    /\ db_conn' = "closed"
    /\ UNCHANGED <<uncaught, cover_type, dimensions, cache_path>>
    /\ UNCHANGED <<runVars, credVars, loopVars>>

Listed(r) == <<r, 0, "list", "ok">> \in events

\* the program is started again, on the disk the last run left
RunAgain ==
    /\ pc = "exited"
    /\ run < MaxRuns
    /\ run' = run + 1
    /\ prev' = [cache |-> cache, cover_type |-> cover_type, ran |-> Listed(run)]
    /\ cacheAtStart' = cache
    /\ keyFileAtStart' = keyFile
    /\ pc' = "get_username"
    /\ exitCode' = NoneId
    /\ uncaught' = None
    /\ cover_type' = "none"
    /\ dimensions' = "None"
    /\ cache_path' = "None"
    /\ db_conn' = "None"
    /\ auth_header' = None
    /\ keySource' = "none"
    /\ keyTests' = <<>>
    /\ keyWrites' = <<>>
    /\ prompts' = 0
    /\ setKey' = "none"
    /\ games' = <<>>
    /\ i' = 0
    /\ game_id' = NoneId
    /\ UNCHANGED <<library, keyFile, cache, events, world>>

Next ==
    \/ GetUsername
    \/ GetCoverType
    \/ ConnectToDb
    \/ GetApiKeyFromFile
    \/ SetApiKey
    \/ GetGamesList
    \/ CheckCover
    \/ SearchGameId
    \/ DownloadCover
    \/ Close
    \/ RunAgain

Spec == Init /\ [][Next]_vars

\* ------------------------------------------------------------ claims
EventsAt(r, k) == {e \in events : e[1] = r /\ e[2] = k}
Fetching == {"search", "grid", "image", "fs", "open", "stream"}

\* C1: a failure while resolving or fetching a game (transport, or the disk
\* when the cache directory is created or the cover written) is caught at the
\* game's boundary: no exception leaves search_game_id or download_cover, and a
\* run that listed the games ends having checked every one of them.
C1_PerGameFailureIsolation ==
    /\ uncaught # None => uncaught[2] \notin {"search_game_id", "download_cover"}
    /\ (pc = "exited" /\ Listed(run)) =>
          \A k \in 1..Len(games) : <<run, k, "check", "skip">> \in events
                                     \/ <<run, k, "check", "proceed">> \in events

\* C2: a slug that has {slug}.jpg, .png or .jpeg in the selected cache
\* directory when the driver checks it is passed over: that iteration issues no
\* search, grid or image request and writes nothing, and the driver is at once
\* at the next game.
HasAcceptedCover ==
    \E e \in {".jpg", ".png", ".jpeg"} : IsFile(cache, cache_path, games[i], e)

C2_ExistingCoverNotFetched ==
    /\ [](\A e \in events :
            (e[3] = "check" /\ e[4] = "skip") =>
                \A d \in EventsAt(e[1], e[2]) : d[3] \notin Fetching)
    /\ [][(pc = "check_cover" /\ HasAcceptedCover) =>
            /\ cache' = cache
            /\ world' = world
            /\ events' = events \cup {<<run, i, "check", "skip">>}
            /\ i' = i + 1
            /\ pc' \in {"check_cover", "close"}]_vars

C2_Witness ==
    /\ pc = "exited"
    /\ \E e \in events : e[3] = "check" /\ e[4] = "skip" /\ e[1] = 1
    /\ \E f \in cache : f.ext = ".png"

\* C3: the pipeline run a second time on the same library, cache directory and
\* catalog leaves the cache directory as the first run left it, and neither
\* downloads nor writes a cover for a slug whose cover the first run wrote.
WrittenBy(r) == {library[e[2]] : e \in {d \in events : d[1] = r /\ d[3] = "open"}}

C3_Idempotent ==
    (run >= 2 /\ pc = "exited" /\ prev.ran /\ prev.cover_type = cover_type) =>
        /\ cache = prev.cache
        /\ \A e \in events :
              (e[1] = run /\ e[3] \in {"image", "open"}) =>
                  library[e[2]] \notin WrittenBy(run - 1)

\* C4: the exit status is non-zero when the user name, the database or the
\* credential setup fails, and zero for every run that got past them and went
\* through the game list, failed games included.
C4_ExitStatus ==
    pc = "exited" =>
        /\ (\/ world.answer["username"] = "OSError"
            \/ world.answer["db"] \in {"error", "bad"}
            \/ setKey \in {"empty", "invalid"}) => exitCode # 0
        /\ Listed(run) => exitCode = 0

\* C5: after a completed run the files it created are exactly {slug}.jpg for
\* the slugs that had no cover when checked, whose search and grid query
\* returned an entry and whose image download succeeded.
Fetched(r) ==
    {k \in 1..Len(library) :
        /\ <<r, k, "check", "proceed">> \in events
        /\ <<r, k, "search", "found">> \in events
        /\ <<r, k, "grid", "found">> \in events
        /\ <<r, k, "image", "ok">> \in events
        /\ <<r, k, "stream", "complete">> \in events}

C5_CompletedRunOutcome ==
    (pc = "exited" /\ Listed(run) /\ uncaught = None) =>
        {<<f.dir, f.slug, f.ext>> : f \in cache \ cacheAtStart}
            = {<<cache_path, library[k], ".jpg">> : k \in Fetched(run)}

\* C6: a search that answers with no match makes search_game_id return None;
\* that iteration issues no grid request and no image download and writes
\* nothing, and the driver goes on to the next slug in library order.
SearchWasEmpty == pc = "download_cover" /\ <<run, i, "search", "empty">> \in events

C6_EmptySearchSkipsFetch ==
    /\ [](SearchWasEmpty => game_id = NoneId)
    /\ [](\A e \in events :
            (e[3] = "search" /\ e[4] = "empty") =>
                \A d \in EventsAt(e[1], e[2]) :
                    d[3] \notin {"grid", "image", "fs", "open", "stream"})
    /\ [][SearchWasEmpty =>
            /\ cache' = cache
            /\ uncaught' = None
            /\ i' = i + 1
            /\ pc' = IF i < Len(games) THEN "check_cover" ELSE "close"]_vars

C6_Witness ==
    /\ <<run, 1, "search", "empty">> \in events
    /\ pc = "search_game_id"
    /\ i = 2

\* C7: get_api_key_from_file returns a credential only if ./apikey.txt exists
\* and is not empty.
C7_LoadAbsentWhenMissingOrEmpty ==
    keySource = "file" => (keyFile.exists /\ keyFile.text # <<>>)

\* C8: ./apikey.txt is written only in the step in which the test request for
\* exactly the written token has just succeeded; an empty input or a token
\* that fails the test leaves the file as it was and ends the program with
\* status 1 after the one prompt.
Succeeded(resp) == resp.net = "ok" /\ resp.status >= 200 /\ resp.status < 300

C8_SavedCredentialWasValidated ==
    /\ [](setKey \in {"empty", "invalid"} =>
            /\ pc = "exited" /\ exitCode = 1
            /\ keyFile = keyFileAtStart /\ keyWrites = <<>>
            /\ prompts = 1)
    /\ [][(keyFile' # keyFile \/ Len(keyWrites') > Len(keyWrites)) =>
            /\ pc = "set_api_key"
            /\ keyWrites' = Append(keyWrites, auth_header'[2])
            /\ Len(keyTests') = Len(keyTests) + 1
            /\ keyTests'[Len(keyTests')][1] = auth_header'[2]
            /\ Succeeded(keyTests'[Len(keyTests')][2])
            /\ keyFile'.text \in {auth_header'[2], <<>>}]_vars

C8_Witness ==
    /\ keyWrites = << <<"k">> >>
    /\ keyFile.text = <<"k">>
    /\ keyFile # keyFileAtStart

\* C9, as the spec states it: test_api_key returns true for every 2xx status
\* and false for every other status and for a network error.
C9_TrueForEvery2xx ==
    \A k \in 1..Len(keyTests) : keyTests[k][3] <=> Succeeded(keyTests[k][2])

\* C9, amended: test_api_key returns true exactly for status 200, false for
\* every other status (the other 2xx included) and for a network error; it
\* issues one request and no exception leaves it.
C9_TrueOnlyFor200 ==
    /\ \A k \in 1..Len(keyTests) :
          keyTests[k][3] <=> (keyTests[k][2].net = "ok" /\ keyTests[k][2].status = 200)
    /\ Len(keyTests) = IF setKey \in {"save", "invalid"} THEN 1 ELSE 0
    /\ uncaught # None => uncaught[2] # "test_api_key"

C9_Witness ==
    /\ \E k \in 1..Len(keyTests) : keyTests[k][2].status = 204 /\ ~keyTests[k][3]
    /\ setKey = "invalid"

\* C10: no partial cover is left behind: a {slug}.jpg the program wrote holds
\* the whole image, and a game whose fetch failed has no {slug}.jpg afterwards.
SelectedPath ==
    IF world.answer["cover_type"] = "Banner" THEN BANNER_CACHE_PATH
    ELSE COVERART_CACHE_PATH

C10_NoPartialCover ==
    /\ \A f \in cache : f.content \in {<<"user">>, FullImage}
    /\ \A e \in events :
          (e[4] \in {"error", "broken"} /\ (e[1] < run \/ e[2] < i \/ pc = "exited")) =>
              ~IsFile(cache, SelectedPath, library[e[2]], ".jpg")

====
